---- MODULE Spec2Model ----
(***************************************************************************)
(* Model of the AppTweak tool-dispatch and caching layer:                  *)
(*   lib/apptweak-api.ts  getRedisClient, makeAppTweakRequest,             *)
(*                        fetchAppTweakData                                *)
(*   api/server.ts        the tools registered on the MCP server           *)
(*                                                                         *)
(* A JavaScript string that the code only builds is a TLA+ string.  A      *)
(* JSON text, which the code also parses, is a sequence of tokens          *)
(* <<kind, text>>; kinds are "p" punctuation, "s" string literal,          *)
(* "n" number literal, "w" the words true/false/null, "raw" any other      *)
(* run of characters.                                                      *)
(***************************************************************************)
EXTENDS Integers, Sequences, FiniteSets, TLC

(***************************************************************************)
(* Bounds of the model.                                                    *)
(***************************************************************************)
MaxCalls == 3
MaxTicks == 2
MaxToolCalls == 2
MaxRaceCalls == 2

(***************************************************************************)
(* Program constants.                                                      *)
(***************************************************************************)
CACHE_TTL == 60 * 60

(***************************************************************************)
(* JavaScript values.  A number is named by the text of the double it is:  *)
(* "-0" is negative zero, "Infinity" the double a literal beyond the       *)
(* double range parses to.  An object is the sequence of its own           *)
(* properties <<name, value>> in insertion order.                          *)
(***************************************************************************)
JUndef == [t |-> "undef", s |-> "", kids |-> <<>>]
JNull == [t |-> "null", s |-> "", kids |-> <<>>]
JBool(b) == [t |-> "bool", s |-> IF b THEN "true" ELSE "false", kids |-> <<>>]
JNum(n) == [t |-> "num", s |-> n, kids |-> <<>>]
JStr(str) == [t |-> "str", s |-> str, kids |-> <<>>]
JArr(elems) == [t |-> "arr", s |-> "", kids |-> elems]
JObj(members) == [t |-> "obj", s |-> "", kids |-> members]

Tok(kind, text) == <<kind, text>>
LBRACE == Tok("p", "{")
RBRACE == Tok("p", "}")
LBRACK == Tok("p", "[")
RBRACK == Tok("p", "]")
COMMA == Tok("p", ",")
COLON == Tok("p", ":")

\* Own property lookup: obj[name], undefined when absent.
GetProp(obj, name) ==
  IF \E i \in DOMAIN obj.kids : obj.kids[i][1] = name
  THEN obj.kids[CHOOSE i \in DOMAIN obj.kids : obj.kids[i][1] = name][2]
  ELSE JUndef

\* Property assignment: an existing property keeps its place, a new one
\* is added last.
SetProp(members, name, v) ==
  IF \E i \in DOMAIN members : members[i][1] = name
  THEN [i \in DOMAIN members |->
          IF members[i][1] = name THEN <<name, v>> ELSE members[i]]
  ELSE Append(members, <<name, v>>)

(***************************************************************************)
(* Number.prototype.toString and the number rule of JSON.stringify.        *)
(***************************************************************************)
NumberToString(n) == IF n = "-0" THEN "0" ELSE n

IsFinite(n) == n \notin {"Infinity", "-Infinity", "NaN"}

\* The double a JSON number literal denotes.
LiteralToNumber(text) ==
  CASE text = "1e999" -> "Infinity"
    [] text = "-1e999" -> "-Infinity"
    [] text = "0.0" -> "0"
    [] OTHER -> text

(***************************************************************************)
(* JSON.stringify(value): the text as a token sequence.  In an object a    *)
(* property whose value is undefined is left out; in an array undefined    *)
(* is written null; a non-finite number is written null.                   *)
(***************************************************************************)
RECURSIVE JSONstringify(_)
RECURSIVE StringifyElems(_, _)
RECURSIVE StringifyMembers(_, _, _)

StringifyElems(elems, i) ==
  IF i > Len(elems) THEN <<>>
  ELSE (IF i > 1 THEN <<COMMA>> ELSE <<>>)
       \o (IF elems[i].t = "undef" THEN <<Tok("w", "null")>>
           ELSE JSONstringify(elems[i]))
       \o StringifyElems(elems, i + 1)

StringifyMembers(members, i, first) ==
  IF i > Len(members) THEN <<>>
  ELSE IF members[i][2].t = "undef"
       THEN StringifyMembers(members, i + 1, first)
       ELSE (IF first THEN <<>> ELSE <<COMMA>>)
            \o <<Tok("s", members[i][1]), COLON>>
            \o JSONstringify(members[i][2])
            \o StringifyMembers(members, i + 1, FALSE)

JSONstringify(v) ==
  CASE v.t = "null" -> <<Tok("w", "null")>>
    [] v.t = "bool" -> <<Tok("w", v.s)>>
    [] v.t = "num" -> IF IsFinite(v.s) THEN <<Tok("n", NumberToString(v.s))>>
                      ELSE <<Tok("w", "null")>>
    [] v.t = "str" -> <<Tok("s", v.s)>>
    [] v.t = "arr" -> <<LBRACK>> \o StringifyElems(v.kids, 1) \o <<RBRACK>>
    [] v.t = "obj" -> <<LBRACE>> \o StringifyMembers(v.kids, 1, TRUE) \o <<RBRACE>>

(***************************************************************************)
(* JSON.parse(text): recursive descent over the tokens.  The result is     *)
(* [ok |-> TRUE, v |-> value] or [ok |-> FALSE] for a SyntaxError.         *)
(***************************************************************************)
ParseFail == [ok |-> FALSE, v |-> JUndef, i |-> 0]

RECURSIVE ParseValue(_, _)
RECURSIVE ParseElems(_, _, _)
RECURSIVE ParseMembers(_, _, _)

ParseElems(toks, i, acc) ==
  LET r == ParseValue(toks, i) IN
  IF ~r.ok \/ r.i > Len(toks) THEN ParseFail
  ELSE IF toks[r.i] = COMMA THEN ParseElems(toks, r.i + 1, Append(acc, r.v))
  ELSE IF toks[r.i] = RBRACK
       THEN [ok |-> TRUE, v |-> JArr(Append(acc, r.v)), i |-> r.i + 1]
  ELSE ParseFail

ParseMembers(toks, i, acc) ==
  IF i + 1 > Len(toks) \/ toks[i][1] # "s" \/ toks[i + 1] # COLON THEN ParseFail
  ELSE LET r == ParseValue(toks, i + 2) IN
       IF ~r.ok \/ r.i > Len(toks) THEN ParseFail
       ELSE IF toks[r.i] = COMMA
            THEN ParseMembers(toks, r.i + 1, SetProp(acc, toks[i][2], r.v))
       ELSE IF toks[r.i] = RBRACE
            THEN [ok |-> TRUE, v |-> JObj(SetProp(acc, toks[i][2], r.v)),
                  i |-> r.i + 1]
       ELSE ParseFail

ParseValue(toks, i) ==
  IF i > Len(toks) THEN ParseFail
  ELSE LET tk == toks[i] IN
    CASE tk = Tok("w", "null") -> [ok |-> TRUE, v |-> JNull, i |-> i + 1]
      [] tk = Tok("w", "true") -> [ok |-> TRUE, v |-> JBool(TRUE), i |-> i + 1]
      [] tk = Tok("w", "false") -> [ok |-> TRUE, v |-> JBool(FALSE), i |-> i + 1]
      [] tk[1] = "n" -> [ok |-> TRUE, v |-> JNum(LiteralToNumber(tk[2])), i |-> i + 1]
      [] tk[1] = "s" -> [ok |-> TRUE, v |-> JStr(tk[2]), i |-> i + 1]
      [] tk = LBRACK ->
           IF i + 1 <= Len(toks) /\ toks[i + 1] = RBRACK
           THEN [ok |-> TRUE, v |-> JArr(<<>>), i |-> i + 2]
           ELSE ParseElems(toks, i + 1, <<>>)
      [] tk = LBRACE ->
           IF i + 1 <= Len(toks) /\ toks[i + 1] = RBRACE
           THEN [ok |-> TRUE, v |-> JObj(<<>>), i |-> i + 2]
           ELSE ParseMembers(toks, i + 1, <<>>)
      [] OTHER -> ParseFail

JSONparse(toks) ==
  LET r == ParseValue(toks, 1) IN
  IF r.ok /\ r.i = Len(toks) + 1 THEN [ok |-> TRUE, v |-> r.v]
  ELSE [ok |-> FALSE, v |-> JUndef]

(***************************************************************************)
(* api/server.ts: the tools registered on the server.  A parameter of a    *)
(* tool's schema is [name, kind, enum, opt, def]: kind is the zod type,    *)
(* enum the values of a z.enum, opt is TRUE for .optional(), def is the    *)
(* .default(...) value or undefined.                                       *)
(***************************************************************************)
P(name, kind, enum, opt, def) ==
  [name |-> name, kind |-> kind, enum |-> enum, opt |-> opt, def |-> def]

PStr(name) == P(name, "string", {}, FALSE, JUndef)
PStrDef(name, d) == P(name, "string", {}, FALSE, JStr(d))
PStrOpt(name) == P(name, "string", {}, TRUE, JUndef)
PPlatform == P("platform", "enum", {"ios", "android"}, FALSE, JUndef)

AnalyticsTools ==
  {"search_app", "get_app_details", "get_reviews", "get_top_displayed_reviews",
   "analyze_ratings", "discover_keywords", "analyze_top_keywords",
   "get_competitors", "analyze_competitive_position", "get_downloads"}

RegisteredTools == AnalyticsTools \cup {"echo"}

Schema(tool) ==
  CASE tool = "search_app" ->
         <<PStr("query"), PPlatform, PStrDef("country", "US"),
           PStrDef("language", "en")>>
    [] tool = "get_app_details" ->
         <<PStr("appId"), PPlatform, PStrDef("country", "US"),
           PStrDef("language", "en")>>
    [] tool = "get_reviews" ->
         <<PStr("appId"), PPlatform, PStrDef("country", "US")>>
    [] tool = "get_top_displayed_reviews" ->
         <<PStr("appId"), PPlatform, PStrDef("country", "US"),
           P("size", "number", {}, FALSE, JNum("50")),
           P("sort", "enum", {"most_useful", "most_recent", "most_positive"},
             FALSE, JStr("most_useful"))>>
    [] tool = "analyze_ratings" ->
         <<PStr("appId"), PPlatform, PStrDef("country", "US"),
           PStrDef("language", "en"), PStrOpt("startDate"), PStrOpt("endDate")>>
    [] tool = "discover_keywords" ->
         <<PStr("query"), PPlatform, PStrDef("country", "US"),
           PStrDef("language", "en"),
           P("limit", "number", {}, FALSE, JNum("20"))>>
    [] tool = "analyze_top_keywords" ->
         <<P("appIds", "array", {}, FALSE, JUndef), PPlatform,
           PStrDef("country", "US"),
           P("limit", "number", {}, FALSE, JNum("10")),
           P("sortBy", "enum", {"score", "volume", "rank"}, FALSE, JStr("score"))>>
    [] tool = "get_competitors" ->
         <<PStr("appId"), PPlatform, PStrDef("country", "US"),
           PStrDef("language", "en")>>
    [] tool = "analyze_competitive_position" ->
         <<PStr("appId"), PPlatform, PStrDef("country", "US"),
           P("competitors", "array", {}, TRUE, JUndef)>>
    [] tool = "get_downloads" ->
         <<PStr("appId"), PPlatform, PStr("country"), PStr("startDate"),
           PStr("endDate")>>
    [] tool = "echo" -> <<PStr("message")>>

\* ActionOf with the featured-reviews tool passing the name of its
\* endpoint file, which is no entry of the endpoint table.
ActionOfByFile(tool) ==
  IF tool = "get_top_displayed_reviews" THEN "featured_reviews" ELSE tool

\* The action each tool's callback passes to fetchAppTweakData.
ActionOf(tool) ==
  CASE tool = "search_app" -> "search_app"
    [] tool = "get_app_details" -> "get_app_details"
    [] tool = "get_reviews" -> "get_reviews"
    [] tool = "get_top_displayed_reviews" -> "get_top_displayed_reviews"
    [] tool = "analyze_ratings" -> "analyze_ratings"
    [] tool = "discover_keywords" -> "discover_keywords"
    [] tool = "analyze_top_keywords" -> "analyze_top_keywords"
    [] tool = "get_competitors" -> "get_competitors"
    [] tool = "analyze_competitive_position" -> "analyze_competitive_position"
    [] tool = "get_downloads" -> "get_downloads"

Routing(tab, section) ==
  [tabId |-> tab, sectionId |-> section, highlightEffect |-> TRUE]

NoRouting == [tabId |-> "", sectionId |-> "", highlightEffect |-> FALSE]

\* RoutingInfo with one destination for every analytics tool.
RoutingInfoOneTab(tool) ==
  IF tool \in AnalyticsTools THEN Routing("overview", "app-info") ELSE NoRouting

\* metadata.routingInfo of each tool's result.
RoutingInfo(tool) ==
  CASE tool = "search_app" -> Routing("overview", "app-info")
    [] tool = "get_app_details" -> Routing("overview", "app-info")
    [] tool = "get_reviews" -> Routing("reviews", "recent-reviews")
    [] tool = "get_top_displayed_reviews" -> Routing("reviews", "featured-reviews")
    [] tool = "analyze_ratings" -> Routing("reviews", "rating-analysis")
    [] tool = "discover_keywords" -> Routing("keywords", "keyword-discovery")
    [] tool = "analyze_top_keywords" -> Routing("keywords", "top-keywords")
    [] tool = "get_competitors" -> Routing("competitors", "competitor-discovery")
    [] tool = "analyze_competitive_position" ->
         Routing("competitors", "competitive-analysis")
    [] tool = "get_downloads" -> Routing("overview", "download-statistics")
    [] OTHER -> NoRouting

\* The routingInfo object literal as a value.
RoutingObject(r) ==
  JObj(<< <<"tabId", JStr(r.tabId)>>, <<"sectionId", JStr(r.sectionId)>>,
          <<"highlightEffect", JBool(r.highlightEffect)>> >>)

\* content: [{ type: "json", json: result }]
JsonContent(result) ==
  JArr(<< JObj(<< <<"type", JStr("json")>>, <<"json", result>> >>) >>)

\* content: [{ type: "text", text }]
TextContent(text) ==
  JArr(<< JObj(<< <<"type", JStr("text")>>, <<"text", text>> >>) >>)

\* ToolEnvelope giving every tool, echo too, a metadata object.
ToolEnvelopeAlwaysMetadata(tool, result) ==
  JObj(<< <<"content", IF tool = "echo" THEN TextContent(result)
                       ELSE JsonContent(result)>>,
          <<"metadata",
            JObj(<< <<"routingInfo", RoutingObject(RoutingInfo(tool))>> >>)>> >>)

\* ToolEnvelope leaving the metadata out when the payload is an error
\* payload.
ToolEnvelopeOmitsOnError(tool, result) ==
  IF tool = "echo" THEN JObj(<< <<"content", TextContent(result)>> >>)
  ELSE IF result.t = "obj" /\ GetProp(result, "error") = JBool(TRUE)
  THEN JObj(<< <<"content", JsonContent(result)>> >>)
  ELSE JObj(<< <<"content", JsonContent(result)>>,
               <<"metadata",
                 JObj(<< <<"routingInfo", RoutingObject(RoutingInfo(tool))>> >>)>> >>)

\* The value a tool's callback returns for the result of fetchAppTweakData
\* (for echo: for the text it built).
ToolEnvelope(tool, result) ==
  IF tool = "echo" THEN JObj(<< <<"content", TextContent(result)>> >>)
  ELSE JObj(<< <<"content", JsonContent(result)>>,
               <<"metadata",
                 JObj(<< <<"routingInfo", RoutingObject(RoutingInfo(tool))>> >>)>> >>)

(***************************************************************************)
(* The schema check the server runs on a call's arguments before the       *)
(* tool's callback (zod object parse).                                     *)
(***************************************************************************)
\* One parameter: the argument, or the declared default when it is undefined.
ZodValue(p, args) ==
  LET given == GetProp(args, p.name) IN
  IF given.t = "undef" THEN p.def ELSE given

ZodAccepts(p, v) ==
  IF v.t = "undef" THEN p.opt
  ELSE CASE p.kind = "string" -> v.t = "str"
         [] p.kind = "enum" -> v.t = "str" /\ v.s \in p.enum
         [] p.kind = "number" -> v.t = "num" /\ v.s # "NaN"
         [] p.kind = "array" ->
              v.t = "arr" /\ \A i \in DOMAIN v.kids : v.kids[i].t = "str"

ArgsValid(tool, args) ==
  \A i \in DOMAIN Schema(tool) :
    ZodAccepts(Schema(tool)[i], ZodValue(Schema(tool)[i], args))

\* HandlerParams passing the request's arguments object on as it came.
HandlerParamsAsGiven(tool, args) == args

\* HandlerParams reading the unparsed arguments: no default is filled in.
HandlerParamsUnparsed(tool, args) ==
  JObj([i \in DOMAIN Schema(tool) |->
          <<Schema(tool)[i].name, GetProp(args, Schema(tool)[i].name)>>])

\* The object literal { a, b, ... } the callback passes on: the parsed
\* values under the callback's own order of names.
HandlerParams(tool, args) ==
  JObj([i \in DOMAIN Schema(tool) |->
          <<Schema(tool)[i].name, ZodValue(Schema(tool)[i], args)>>])

(***************************************************************************)
(* lib/apptweak-api.ts: pure parts of fetchAppTweakData and                *)
(* makeAppTweakRequest.                                                    *)
(***************************************************************************)
\* const cacheKey = `apptweak:${action}:${JSON.stringify(params)}`
CacheKey(action, params) ==
  <<Tok("raw", "apptweak:" \o action \o ":")>> \o JSONstringify(params)

\* The endpoints object literal; a path is the sequence of its segments.
endpoints ==
  ("search_app" :> <<"ios", "applications", "search.json">>)
  @@ ("get_app_details" :> <<"ios", "applications", "lookup.json">>)
  @@ ("get_reviews" :> <<"ios", "applications", "reviews.json">>)
  @@ ("get_top_displayed_reviews" :> <<"ios", "applications", "featured_reviews.json">>)
  @@ ("search_reviews" :> <<"ios", "applications", "reviews", "search.json">>)
  @@ ("get_review_stats" :> <<"ios", "applications", "reviews", "stats.json">>)
  @@ ("analyze_ratings" :> <<"ios", "applications", "ratings.json">>)
  @@ ("discover_keywords" :> <<"ios", "keywords", "suggestions.json">>)
  @@ ("track_keyword_rankings" :> <<"ios", "keywords", "rankings.json">>)
  @@ ("get_keyword_stats" :> <<"ios", "keywords", "stats.json">>)
  @@ ("get_keyword_volume_history" :> <<"ios", "keywords", "volume", "history.json">>)
  @@ ("analyze_top_keywords" :> <<"ios", "keywords", "top.json">>)
  @@ ("get_category_top_keywords" :> <<"ios", "categories", "keywords.json">>)
  @@ ("get_trending_keywords" :> <<"ios", "categories", "trending_searches.json">>)
  @@ ("get_competitors" :> <<"ios", "applications", "competitors.json">>)
  @@ ("analyze_competitive_position" :> <<"ios", "applications", "power.json">>)
  @@ ("get_downloads" :> <<"ios", "applications", "downloads.json">>)

\* Names every object literal inherits from Object.prototype; their values
\* are functions (truthy, and not strings).
ObjectPrototypeNames == {"constructor", "toString", "hasOwnProperty", "valueOf"}

\* String(f) of such a function.
NativeCodeText(name) ==
  "function " \o (IF name = "constructor" THEN "Object" ELSE name)
    \o "() { [native code] }"

\* endpoints[action] || "": [str |-> is it a string, segs |-> the path;
\* <<>> is the empty string].
EndpointLookup(action) ==
  IF action \in DOMAIN endpoints THEN [str |-> TRUE, segs |-> endpoints[action]]
  ELSE IF action \in ObjectPrototypeNames
       THEN [str |-> FALSE, segs |-> <<NativeCodeText(action)>>]
       ELSE [str |-> TRUE, segs |-> <<>>]

\* ReplaceIos leaving the path as it is.
ReplaceIosKeeps(segs) == segs

\* endpoint.replace("ios/", "android/"): the first "ios/" of the path, that
\* is the first segment "ios" that a "/" follows.
ReplaceIos(segs) ==
  IF \E i \in 1..(Len(segs) - 1) : segs[i] = "ios"
  THEN LET first == CHOOSE i \in 1..(Len(segs) - 1) :
                      /\ segs[i] = "ios"
                      /\ \A j \in 1..(i - 1) : segs[j] # "ios"
       IN [i \in DOMAIN segs |-> IF i = first THEN "android" ELSE segs[i]]
  ELSE segs

\* value.toString() of a query value.
ValueToString(v) ==
  CASE v.t = "str" -> v.s
    [] v.t = "num" -> NumberToString(v.s)
    [] v.t = "bool" -> v.s
    [] OTHER -> "[object Object]"

\* Object.entries(params).forEach(...): the url.searchParams entries in the
\* order they are appended.
RECURSIVE QueryItems(_, _, _)
RECURSIVE QueryEntriesSendsNull(_, _)
RECURSIVE QueryEntries(_, _)
QueryItems(name, items, i) ==
  IF i > Len(items) THEN <<>>
  ELSE <<<<name \o "[]", ValueToString(items[i])>>>> \o QueryItems(name, items, i + 1)

\* QueryEntries without the test for undefined and null: such a value is
\* sent as the text String(value).
QueryEntriesSendsNull(members, i) ==
  IF i > Len(members) THEN <<>>
  ELSE LET name == members[i][1]
           value == members[i][2]
       IN (IF value.t = "arr" THEN QueryItems(name, value.kids, 1)
           ELSE IF value.t = "undef" THEN <<<<name, "undefined">>>>
           ELSE IF value.t = "null" THEN <<<<name, "null">>>>
           ELSE <<<<name, ValueToString(value)>>>>)
          \o QueryEntriesSendsNull(members, i + 1)

QueryEntries(members, i) ==
  IF i > Len(members) THEN <<>>
  ELSE LET name == members[i][1]
           value == members[i][2]
       IN (IF value.t \in {"undef", "null"} THEN <<>>
           ELSE IF value.t = "arr" THEN QueryItems(name, value.kids, 1)
           ELSE <<<<name, ValueToString(value)>>>>)
          \o QueryEntries(members, i + 1)

\* item.toString() throws a TypeError on a null or undefined array item.
QueryThrows(params) ==
  \E i \in DOMAIN params.kids :
    /\ params.kids[i][2].t = "arr"
    /\ \E j \in DOMAIN params.kids[i][2].kids :
         params.kids[i][2].kids[j].t \in {"undef", "null"}

\* response.ok
ResponseOk(status) == status >= 200 /\ status <= 299

\* StatusMessage without the status code.
StatusMessageNoCode(status, errorText) == "AppTweak API error: " \o errorText

\* `AppTweak API error (${response.status}): ${errorText}`
StatusMessage(status, errorText) ==
  "AppTweak API error (" \o ToString(status) \o "): " \o errorText

UnknownActionMessage(action) == "Unknown AppTweak API action: " \o action

MissingKeyMessage == "APPTWEAK_API_KEY environment variable is not set"

\* The value of the catch block: { error: true, message }.
ErrorPayload(message) ==
  JObj(<< <<"error", JBool(TRUE)>>, <<"message", JStr(message)>> >>)

(***************************************************************************)
(* The environment: what the upstream and the Cache Store may answer, and  *)
(* the calls the server may receive.                                       *)
(***************************************************************************)
\* An HTTP response: the status, the body as response.text() gives it and
\* the same body as the tokens response.json() parses.
Response(status, text, toks) == [status |-> status, text |-> text, toks |-> toks]

NoResponse == Response(0, "", <<>>)

BodyPlain ==
  Response(200, "{\"rating\":1}",
           <<LBRACE, Tok("s", "rating"), COLON, Tok("n", "1"), RBRACE>>)

BodyHuge ==
  Response(200, "{\"score\":1e999}",
           <<LBRACE, Tok("s", "score"), COLON, Tok("n", "1e999"), RBRACE>>)

BodyHtml == Response(200, "<html>", <<Tok("raw", "<html>")>>)

BodyQuota == Response(429, "quota exceeded", <<Tok("raw", "quota exceeded")>>)

BodyDown ==
  Response(500, "Internal Server Error", <<Tok("raw", "Internal Server Error")>>)

Responses == {BodyPlain, BodyHuge, BodyHtml, BodyQuota, BodyDown}

\* A later answer of the upstream to the same request.
BodyFresh ==
  Response(200, "{\"rating\":2}",
           <<LBRACE, Tok("s", "rating"), COLON, Tok("n", "2"), RBRACE>>)

AppId == "389801252"

ToolCall(tool, members) == [tool |-> tool, args |-> JObj(members)]

\* A sample value the schema accepts for a parameter without a default.
SampleValue(p) ==
  CASE p.name = "platform" -> JStr("ios")
    [] p.name = "appId" -> JStr(AppId)
    [] p.name = "query" -> JStr("chess")
    [] p.name = "country" -> JStr("FR")
    [] p.name = "startDate" -> JStr("2024-01-01")
    [] p.name = "endDate" -> JStr("2024-01-31")
    [] p.name = "message" -> JStr("hi")
    [] p.kind = "array" -> JArr(<<JStr(AppId), JStr("310633997")>>)

\* The arguments of a call that names every parameter of the tool, the
\* defaulted ones with their default value, in the schema's order.
FullArgs(tool) ==
  [i \in DOMAIN Schema(tool) |->
     <<Schema(tool)[i].name,
       IF Schema(tool)[i].def.t # "undef" THEN Schema(tool)[i].def
       ELSE SampleValue(Schema(tool)[i])>>]

Defaulted(tool) ==
  {Schema(tool)[i].name : i \in {j \in DOMAIN Schema(tool) :
                                   Schema(tool)[j].def.t # "undef"}}

Optional(tool) ==
  {Schema(tool)[i].name : i \in {j \in DOMAIN Schema(tool) : Schema(tool)[j].opt}}

\* members without the properties named in names.
RECURSIVE Without(_, _)
Without(members, names) ==
  IF members = <<>> THEN <<>>
  ELSE (IF Head(members)[1] \in names THEN <<>> ELSE <<Head(members)>>)
       \o Without(Tail(members), names)

\* The calls of the specification Spec: one tool with and without its
\* default, both platforms, a call the schema rejects, the empty list.
ToolCalls ==
  { ToolCall("get_reviews",
             << <<"appId", JStr(AppId)>>, <<"platform", JStr("ios")>> >>),
    ToolCall("get_reviews",
             << <<"platform", JStr("ios")>>, <<"country", JStr("US")>>,
                <<"appId", JStr(AppId)>> >>),
    ToolCall("get_reviews",
             << <<"appId", JStr(AppId)>>, <<"platform", JStr("android")>> >>),
    ToolCall("get_reviews", << <<"platform", JStr("ios")>> >>),
    ToolCall("analyze_top_keywords",
             << <<"appIds", JArr(<<>>)>>, <<"platform", JStr("ios")>> >>),
    ToolCall("echo", << <<"message", JStr("hi")>> >>) }

\* The calls of the specification ToolSpec: every registered tool, with
\* every subset of its defaulted and optional parameters left out.
ToolResponses == {BodyPlain, BodyDown}

AllToolCalls ==
  UNION { { ToolCall(tool, Without(FullArgs(tool), names)) :
              names \in {n \in SUBSET (Defaulted(tool) \cup Optional(tool)) :
                          \/ Cardinality(n) <= 1
                          \/ n = Defaulted(tool) \cup Optional(tool)} } :
          tool \in RegisteredTools }

\* Calls of the exported fetchAppTweakData that no registered tool makes.
DirectCalls ==
  { [action |-> "no_such_action",
     params |-> JObj(<< <<"platform", JStr("ios")>> >>)] }

Procs == {1}

\* The invocations that may be in flight at once in the specification
\* RaceSpec; the second one stays idle in the other specifications.
Racers == {1, 2}

TickStep == CACHE_TTL \div 2

(***************************************************************************)
(* State.                                                                  *)
(***************************************************************************)
VARIABLES
  env,          \* process.env: [redisUrl, apiKey], TRUE when the variable is set
  redisClient,  \* the module's redisClient: "null" or "client"
  created,      \* number of createClient calls
  connects,     \* number of connect calls
  cache,        \* the Cache Store: entries [key, val, at, ex, by]
  now,          \* the Cache Store's clock, in seconds
  calls,        \* per process, the call it is running
  prev,         \* the call that returned last
  nextId,       \* number of calls begun
  probe         \* KeySpec: two calls and the cache keys derived for them

vars ==
  <<env, redisClient, created, connects, cache, now, calls, prev, nextId, probe>>

NoRequest == [path |-> <<>>, query |-> <<>>]

\* pc is the await the call is suspended at: "connect", "get", "fetch",
\* "set"; "ret" when its result is ready; "done" when the tool's callback
\* has returned its envelope; "idle" when no call runs.
\* site names the statement that threw, "" when none did.
Idle ==
  [pc |-> "idle", id |-> 0, tool |-> "", args |-> JUndef, action |-> "",
   params |-> JUndef, key |-> <<>>, redis |-> FALSE, reads |-> 0,
   readAt |-> 0, hit |-> FALSE, fetches |-> 0, req |-> NoRequest,
   resp |-> NoResponse, data |-> JUndef, writes |-> 0, wroteAt |-> 0,
   result |-> JUndef, site |-> "", after |-> 0, envelope |-> JUndef]

Live(e) == now < e.at + e.ex

\* redis.get(key): the stored string, or null (here <<>>) without a live entry.
CacheGet(key) ==
  IF \E e \in cache : e.key = key /\ Live(e)
  THEN (CHOOSE e \in cache : e.key = key /\ Live(e)).val
  ELSE <<>>

\* CacheSet storing the entry with twice the TTL asked for.
CacheSetDoubleTtl(key, val, ex, id) ==
  {e \in cache : e.key # key}
    \cup {[key |-> key, val |-> val, at |-> now, ex |-> 2 * ex, by |-> id]}

\* CacheSet as SET with NX: a live entry of the key is kept.
CacheSetFirstWins(key, val, ex, id) ==
  IF \E e \in cache : e.key = key /\ Live(e) THEN cache
  ELSE {e \in cache : e.key # key}
         \cup {[key |-> key, val |-> val, at |-> now, ex |-> ex, by |-> id]}

\* CacheSet that keeps the expiry time of the first write of the store:
\* the TTL of a later write does not start anew.
CacheSetStaleClock(key, val, ex, id) ==
  {e \in cache : e.key # key}
    \cup {[key |-> key, val |-> val, at |-> 0, ex |-> ex, by |-> id]}

\* redis.set(key, val, { EX: ex }) by call id.
CacheSet(key, val, ex, id) ==
  {e \in cache : e.key # key}
    \cup {[key |-> key, val |-> val, at |-> now, ex |-> ex, by |-> id]}

NoProbe ==
  [stage |-> "none", how |-> "", action |-> "", a |-> JUndef, b |-> JUndef,
   ka |-> <<>>, kb |-> <<>>, ra |-> NoRequest, rb |-> NoRequest,
   sa |-> "", sb |-> "", other |-> ""]

Start0 ==
  /\ env \in [redisUrl : BOOLEAN, apiKey : BOOLEAN]
  /\ redisClient = "null"
  /\ created = 0
  /\ connects = 0
  /\ cache = {}
  /\ now = 0
  /\ calls = [p \in Racers |-> Idle]
  /\ prev = Idle
  /\ nextId = 0

Init ==
  /\ Start0
  /\ probe = NoProbe

(***************************************************************************)
(* fetchAppTweakData, cut at its awaits.                                   *)
(***************************************************************************)
\* Caught without the catch block: the error leaves fetchAppTweakData and
\* the call has no value.
CaughtRethrows(c, site, message) == [c EXCEPT !.pc = "ret", !.site = site]

\* catch (error): the call resolves to the error payload.
Caught(c, site, message) ==
  [c EXCEPT !.pc = "ret", !.site = site, !.result = ErrorPayload(message)]

\* Lines 101-142 and makeAppTweakRequest up to the fetch: resolve the
\* endpoint, check the credential, build the URL and issue the request.
Resolve(c) ==
  LET found == EndpointLookup(c.action)
      android == GetProp(c.params, "platform") = JStr("android")
  IN
  IF android /\ ~found.str
  THEN Caught(c, "replace", "endpoint.replace is not a function")
  ELSE LET endpoint == IF android THEN ReplaceIos(found.segs) ELSE found.segs IN
       IF endpoint = <<>>
       THEN Caught(c, "unknown", UnknownActionMessage(c.action))
       ELSE IF ~env.apiKey
       THEN Caught(c, "apikey", MissingKeyMessage)
       ELSE IF QueryThrows(c.params)
       THEN Caught(c, "query", "Cannot read properties of null (reading 'toString')")
       ELSE [c EXCEPT !.pc = "fetch", !.fetches = @ + 1,
                      !.req = [path |-> endpoint,
                               query |-> QueryEntries(c.params.kids, 1)]]

\* AfterGet with the cached string ignored: every read is taken for a miss.
AfterGetIgnoresCache(c, cachedData) == Resolve([c EXCEPT !.readAt = now])

\* AfterGet with a hit writing the entry back, which restarts its TTL.
AfterGetRefreshes(c, cachedData) ==
  LET c1 == [c EXCEPT !.readAt = now] IN
  IF cachedData # <<>>
  THEN LET parsed == JSONparse(cachedData) IN
       IF parsed.ok
       THEN [c1 EXCEPT !.pc = "set", !.hit = TRUE, !.data = parsed.v,
                       !.writes = @ + 1]
       ELSE Caught(c1, "parse", "Unexpected token in JSON")
  ELSE Resolve(c1)

\* AfterGet with the credential checked before the cached string is
\* looked at.
AfterGetChecksKeyFirst(c, cachedData) ==
  LET c1 == [c EXCEPT !.readAt = now] IN
  IF ~env.apiKey
  THEN Caught(c1, "apikey", MissingKeyMessage)
  ELSE IF cachedData # <<>>
  THEN LET parsed == JSONparse(cachedData) IN
       IF parsed.ok
       THEN [c1 EXCEPT !.pc = "ret", !.hit = TRUE, !.result = parsed.v]
       ELSE Caught(c1, "parse", "Unexpected token in JSON")
  ELSE Resolve(c1)

\* Lines 95-99: the answer of redis.get.
AfterGet(c, cachedData) ==
  LET c1 == [c EXCEPT !.readAt = now] IN
  IF cachedData # <<>>
  THEN LET parsed == JSONparse(cachedData) IN
       IF parsed.ok
       THEN [c1 EXCEPT !.pc = "ret", !.hit = TRUE, !.result = parsed.v]
       ELSE Caught(c1, "parse", "Unexpected token in JSON")
  ELSE Resolve(c1)

\* AfterFetch where a non-2xx answer is not thrown but handed on as the
\* data of the call, and so reaches the cache write.
AfterFetchKeepsFailure(c, r) ==
  LET c1 == [c EXCEPT !.resp = r]
      parsed == JSONparse(r.toks)
      data == IF ~ResponseOk(r.status)
              THEN ErrorPayload(StatusMessage(r.status, r.text))
              ELSE parsed.v
  IN
  IF ResponseOk(r.status) /\ ~parsed.ok
  THEN Caught(c1, "json", "Unexpected token < in JSON at position 0")
  ELSE IF c.redis
  THEN [c1 EXCEPT !.pc = "set", !.data = data, !.writes = @ + 1]
  ELSE [c1 EXCEPT !.pc = "ret", !.data = data, !.result = data]

\* AfterFetch where a 2xx body that is no JSON is kept as its text and
\* goes on to the cache write.
AfterFetchStoresText(c, r) ==
  LET c1 == [c EXCEPT !.resp = r] IN
  IF ~ResponseOk(r.status)
  THEN Caught(c1, "status", StatusMessage(r.status, r.text))
  ELSE LET parsed == JSONparse(r.toks)
           data == IF parsed.ok THEN parsed.v ELSE JStr(r.text)
       IN IF c.redis
          THEN [c1 EXCEPT !.pc = "set", !.data = data, !.writes = @ + 1]
          ELSE [c1 EXCEPT !.pc = "ret", !.data = data, !.result = data]

\* AfterFetch where a non-2xx answer is followed by a second request.
AfterFetchRetries(c, r) ==
  LET c1 == [c EXCEPT !.resp = r] IN
  IF ~ResponseOk(r.status)
  THEN IF c.fetches < 2
       THEN [c1 EXCEPT !.fetches = @ + 1]
       ELSE Caught(c1, "status", StatusMessage(r.status, r.text))
  ELSE LET parsed == JSONparse(r.toks) IN
       IF ~parsed.ok
       THEN Caught(c1, "json", "Unexpected token < in JSON at position 0")
       ELSE IF c.redis
       THEN [c1 EXCEPT !.pc = "set", !.data = parsed.v, !.writes = @ + 1]
       ELSE [c1 EXCEPT !.pc = "ret", !.data = parsed.v, !.result = parsed.v]

\* Lines 72-77 and 144-150: the answer of the upstream.
AfterFetch(c, r) ==
  LET c1 == [c EXCEPT !.resp = r] IN
  IF ~ResponseOk(r.status)
  THEN Caught(c1, "status", StatusMessage(r.status, r.text))
  ELSE LET parsed == JSONparse(r.toks) IN
       IF ~parsed.ok
       THEN Caught(c1, "json", "Unexpected token < in JSON at position 0")
       ELSE IF c.redis
       THEN [c1 EXCEPT !.pc = "set", !.data = parsed.v, !.writes = @ + 1]
       ELSE [c1 EXCEPT !.pc = "ret", !.data = parsed.v, !.result = parsed.v]

\* Start with getRedisClient creating a client whatever process.env holds.
StartAlwaysConnects(p, c0) ==
  LET c == [c0 EXCEPT !.key = CacheKey(c0.action, c0.params)] IN
  IF redisClient = "null"
  THEN /\ redisClient' = "client"
       /\ created' = created + 1
       /\ connects' = connects + 1
       /\ calls' = [calls EXCEPT ![p] = [c EXCEPT !.pc = "connect"]]
  ELSE /\ calls' = [calls EXCEPT ![p] =
                      [c EXCEPT !.pc = "get", !.redis = TRUE, !.reads = @ + 1]]
       /\ UNCHANGED <<redisClient, created, connects>>

\* Start with getRedisClient keeping the client it creates to itself: the
\* module's redisClient stays null.
StartNeverInstalls(p, c0) ==
  LET c == [c0 EXCEPT !.key = CacheKey(c0.action, c0.params)] IN
  IF env.redisUrl
  THEN /\ created' = created + 1
       /\ connects' = connects + 1
       /\ calls' = [calls EXCEPT ![p] = [c EXCEPT !.pc = "connect"]]
       /\ UNCHANGED redisClient
  ELSE /\ calls' = [calls EXCEPT ![p] = Resolve(c)]
       /\ UNCHANGED <<redisClient, created, connects>>

\* Lines 88-94 and getRedisClient up to its await.
Start(p, c0) ==
  LET c == [c0 EXCEPT !.key = CacheKey(c0.action, c0.params)] IN
  IF redisClient = "null" /\ env.redisUrl
  THEN /\ redisClient' = "client"
       /\ created' = created + 1
       /\ connects' = connects + 1
       /\ calls' = [calls EXCEPT ![p] = [c EXCEPT !.pc = "connect"]]
  ELSE IF redisClient = "null"
  THEN /\ calls' = [calls EXCEPT ![p] = Resolve(c)]
       /\ UNCHANGED <<redisClient, created, connects>>
  ELSE /\ calls' = [calls EXCEPT ![p] =
                      [c EXCEPT !.pc = "get", !.redis = TRUE, !.reads = @ + 1]]
       /\ UNCHANGED <<redisClient, created, connects>>

CanBegin(p) ==
  /\ calls[p].pc = "idle"
  /\ nextId < MaxCalls

NewCall(tool, args) ==
  [Idle EXCEPT !.id = nextId + 1, !.tool = tool, !.args = args,
               !.after = prev.id]

\* A tools/call request for a registered tool: schema check, then the
\* tool's callback.
BeginTool(p, tc) ==
  /\ CanBegin(p)
  /\ tc.tool # "echo"
  /\ ArgsValid(tc.tool, tc.args)
  /\ nextId' = nextId + 1
  /\ Start(p, [NewCall(tc.tool, tc.args) EXCEPT
                 !.action = ActionOf(tc.tool),
                 !.params = HandlerParams(tc.tool, tc.args)])
  /\ UNCHANGED <<probe, env, cache, now, prev>>

\* A request whose arguments the schema rejects: the callback does not run.
BeginInvalid(p, tc) ==
  /\ CanBegin(p)
  /\ ~ArgsValid(tc.tool, tc.args)
  /\ nextId' = nextId + 1
  /\ calls' = [calls EXCEPT ![p] =
                 [NewCall(tc.tool, tc.args) EXCEPT !.pc = "ret", !.site = "schema"]]
  /\ UNCHANGED <<probe, env, redisClient, created, connects, cache, now, prev>>

\* The echo tool.
BeginEcho(p, tc) ==
  /\ CanBegin(p)
  /\ tc.tool = "echo"
  /\ ArgsValid(tc.tool, tc.args)
  /\ nextId' = nextId + 1
  /\ calls' = [calls EXCEPT ![p] =
                 [NewCall(tc.tool, tc.args) EXCEPT
                    !.pc = "ret",
                    !.result = JStr("Tool echo: " \o GetProp(tc.args, "message").s)]]
  /\ UNCHANGED <<probe, env, redisClient, created, connects, cache, now, prev>>

\* A call of the exported fetchAppTweakData itself.
BeginDirect(p, dc) ==
  /\ CanBegin(p)
  /\ nextId' = nextId + 1
  /\ Start(p, [NewCall("", JUndef) EXCEPT !.action = dc.action, !.params = dc.params])
  /\ UNCHANGED <<probe, env, cache, now, prev>>

\* await redisClient.connect() resolves.
ConnectOk(p) ==
  /\ calls[p].pc = "connect"
  /\ calls' = [calls EXCEPT ![p] = [@ EXCEPT !.pc = "get", !.redis = TRUE,
                                              !.reads = @ + 1]]
  /\ UNCHANGED <<probe, env, redisClient, created, connects, cache, now, prev, nextId>>

\* ConnectFails where the failed client is dropped: redisClient is null
\* again, and the next call creates and connects a new one.
ConnectFailsUninstalls(p) ==
  /\ calls[p].pc = "connect"
  /\ calls' = [calls EXCEPT ![p] = Caught(@, "connect", "connect ECONNREFUSED")]
  /\ redisClient' = "null"
  /\ UNCHANGED <<probe, env, created, connects, cache, now, prev, nextId>>

\* await redisClient.connect() rejects.
ConnectFails(p) ==
  /\ calls[p].pc = "connect"
  /\ calls' = [calls EXCEPT ![p] = Caught(@, "connect", "connect ECONNREFUSED")]
  /\ UNCHANGED <<probe, env, redisClient, created, connects, cache, now, prev, nextId>>

\* await redis.get(cacheKey) resolves.
GetOk(p) ==
  /\ calls[p].pc = "get"
  /\ calls' = [calls EXCEPT ![p] = AfterGet(@, CacheGet(@.key))]
  /\ UNCHANGED <<probe, env, redisClient, created, connects, cache, now, prev, nextId>>

\* await redis.get(cacheKey) rejects.
GetFails(p) ==
  /\ calls[p].pc = "get"
  /\ calls' = [calls EXCEPT ![p] = Caught(@, "get", "Socket closed unexpectedly")]
  /\ UNCHANGED <<probe, env, redisClient, created, connects, cache, now, prev, nextId>>

\* The upstream answers and the body is read.
FetchResponds(p, r) ==
  /\ calls[p].pc = "fetch"
  /\ calls' = [calls EXCEPT ![p] = AfterFetch(@, r)]
  /\ UNCHANGED <<probe, env, redisClient, created, connects, cache, now, prev, nextId>>

\* fetch, or the read of the body, rejects: a network error.
FetchFails(p) ==
  /\ calls[p].pc = "fetch"
  /\ calls' = [calls EXCEPT ![p] = Caught(@, "fetch", "fetch failed")]
  /\ UNCHANGED <<probe, env, redisClient, created, connects, cache, now, prev, nextId>>

\* await redis.set(...) resolves: the entry is stored.
SetOk(p) ==
  /\ calls[p].pc = "set"
  /\ cache' = CacheSet(calls[p].key, JSONstringify(calls[p].data), CACHE_TTL,
                       calls[p].id)
  /\ calls' = [calls EXCEPT ![p] = [@ EXCEPT !.pc = "ret", !.wroteAt = now,
                                              !.result = calls[p].data]]
  /\ UNCHANGED <<probe, env, redisClient, created, connects, now, prev, nextId>>

\* await redis.set(...) rejects.
SetFails(p) ==
  /\ calls[p].pc = "set"
  /\ calls' = [calls EXCEPT ![p] = Caught(@, "set", "Socket closed unexpectedly")]
  /\ UNCHANGED <<probe, env, redisClient, created, connects, cache, now, prev, nextId>>

\* The tool's callback, resumed with the result, returns its envelope.
Respond(p) ==
  /\ calls[p].pc = "ret"
  /\ calls[p].tool # ""
  /\ calls[p].site # "schema"
  /\ calls' = [calls EXCEPT ![p] =
                 [@ EXCEPT !.pc = "done",
                           !.envelope = ToolEnvelope(calls[p].tool, calls[p].result)]]
  /\ UNCHANGED <<probe, env, redisClient, created, connects, cache, now, prev, nextId>>

\* The call's promise resolves to its caller: the server for a tool's
\* callback and for a rejected request, the caller of fetchAppTweakData
\* for a direct call.
Return(p) ==
  /\ \/ calls[p].pc = "done"
     \/ calls[p].pc = "ret" /\ (calls[p].tool = "" \/ calls[p].site = "schema")
  /\ prev' = calls[p]
  /\ calls' = [calls EXCEPT ![p] = Idle]
  /\ UNCHANGED <<probe, env, redisClient, created, connects, cache, now, nextId>>

\* Time passes in the Cache Store, which drops the entries whose TTL is over.
\* Only redis.get and redis.set read the store's clock: it is advanced
\* while one of them is pending.
Tick ==
  /\ now < MaxTicks * TickStep
  /\ \E p \in Racers : calls[p].pc \in {"get", "set"}
  /\ now' = now + TickStep
  /\ cache' = {e \in cache : now' < e.at + e.ex}
  /\ UNCHANGED <<probe, env, redisClient, created, connects, calls, prev, nextId>>

Next ==
  \/ \E p \in Procs, tc \in ToolCalls : BeginTool(p, tc)
  \/ \E p \in Procs, tc \in ToolCalls : BeginInvalid(p, tc)
  \/ \E p \in Procs, tc \in ToolCalls : BeginEcho(p, tc)
  \/ \E p \in Procs, dc \in DirectCalls : BeginDirect(p, dc)
  \/ \E p \in Procs : ConnectOk(p)
  \/ \E p \in Procs : ConnectFails(p)
  \/ \E p \in Procs : GetOk(p)
  \/ \E p \in Procs : GetFails(p)
  \/ \E p \in Procs, r \in Responses : FetchResponds(p, r)
  \/ \E p \in Procs : FetchFails(p)
  \/ \E p \in Procs : SetOk(p)
  \/ \E p \in Procs : SetFails(p)
  \/ \E p \in Procs : Respond(p)
  \/ \E p \in Procs : Return(p)
  \/ Tick

Spec == Init /\ [][Next]_vars

(***************************************************************************)
(* ToolSpec: the same program, called through every registered tool; the   *)
(* calls of one behaviour go to one tool.                                  *)
(***************************************************************************)
SameTool(tc) == nextId < MaxToolCalls /\ (prev.id = 0 \/ prev.tool = tc.tool)

ToolNext ==
  \/ \E p \in Procs, tc \in AllToolCalls : SameTool(tc) /\ BeginTool(p, tc)
  \/ \E p \in Procs, tc \in AllToolCalls : SameTool(tc) /\ BeginEcho(p, tc)
  \/ \E p \in Procs : ConnectOk(p)
  \/ \E p \in Procs : ConnectFails(p)
  \/ \E p \in Procs : GetOk(p)
  \/ \E p \in Procs : GetFails(p)
  \/ \E p \in Procs, r \in ToolResponses : FetchResponds(p, r)
  \/ \E p \in Procs : FetchFails(p)
  \/ \E p \in Procs : SetOk(p)
  \/ \E p \in Procs : SetFails(p)
  \/ \E p \in Procs : Respond(p)
  \/ \E p \in Procs : Return(p)
  \/ Tick

ToolSpec == Init /\ [][ToolNext]_vars

(***************************************************************************)
(* RaceSpec: two invocations of one tool call in flight at once, on a      *)
(* Cache Store that is empty or already holds the entry of the call,       *)
(* written by another instance of the server.                              *)
(***************************************************************************)
RaceCall ==
  ToolCall("get_reviews",
           << <<"appId", JStr(AppId)>>, <<"platform", JStr("ios")>> >>)

RaceResponses == {BodyPlain, BodyFresh}

WarmEntry ==
  [key |-> CacheKey(ActionOf(RaceCall.tool),
                    HandlerParams(RaceCall.tool, RaceCall.args)),
   val |-> JSONstringify(JSONparse(BodyPlain.toks).v),
   at |-> 0, ex |-> CACHE_TTL, by |-> 0]

RaceInit ==
  /\ env \in [redisUrl : BOOLEAN, apiKey : BOOLEAN]
  /\ redisClient = "null"
  /\ created = 0
  /\ connects = 0
  /\ cache \in {{}, {WarmEntry}}
  /\ now = 0
  /\ calls = [p \in Racers |-> Idle]
  /\ prev = Idle
  /\ nextId = 0
  /\ probe = NoProbe

RaceNext ==
  \/ \E p \in Racers : nextId < MaxRaceCalls /\ BeginTool(p, RaceCall)
  \/ \E p \in Racers : ConnectOk(p)
  \/ \E p \in Racers : ConnectFails(p)
  \/ \E p \in Racers : GetOk(p)
  \/ \E p \in Racers : GetFails(p)
  \/ \E p \in Racers, r \in RaceResponses : FetchResponds(p, r)
  \/ \E p \in Racers : FetchFails(p)
  \/ \E p \in Racers : SetOk(p)
  \/ \E p \in Racers : SetFails(p)
  \/ \E p \in Racers : Respond(p)
  \/ \E p \in Racers : Return(p)
  \/ Tick

RaceSpec == RaceInit /\ [][RaceNext]_vars

(***************************************************************************)
(* KeySpec: key derivation as a function of the call.  A probe is a pair   *)
(* of calls a and b of one tool (how = "reorder": b names the arguments    *)
(* of a in another order) or of fetchAppTweakData itself (how = "direct":  *)
(* b is the params object of a with its properties in another order).      *)
(* how = "resolve": a and b are the params of two calls of one action of   *)
(* the endpoint table, for ios and for android; how = "query": a is a      *)
(* params object whose query string is built.  ra, rb are the requests     *)
(* issued for a and b, sa, sb the statements that threw.  how = "absent":  *)
(* as "resolve", for an action that is no property of the table.           *)
(* how = "differ": a is a call of the tool action and b a call of the tool *)
(* other, and the two differ in the tool, or in the value of one argument. *)
(***************************************************************************)
Perms(n) == {f \in [1..n -> 1..n] : \A i, j \in 1..n : i # j => f[i] # f[j]}

Reorderings(members) ==
  {[i \in DOMAIN members |-> members[f[i]]] : f \in Perms(Len(members))}

Probe(how, action, a, b) ==
  [NoProbe EXCEPT !.stage = "in", !.how = how, !.action = action,
                  !.a = a, !.b = b]

\* Parameter objects with every kind of value makeAppTweakRequest tells
\* apart: lists, null, undefined, numbers, booleans, the empty string.
QueryMaps ==
  { HandlerParams(tc.tool, tc.args) :
      tc \in {t \in AllToolCalls : t.tool \in AnalyticsTools} }
  \cup
  { JObj(<< <<"platform", JStr("ios")>>,
            <<"ids", JArr(<<JStr("b"), JStr("a"), JStr("b")>>)>>,
            <<"note", JNull>>,
            <<"gap", JUndef>>,
            <<"size", JNum("0")>>,
            <<"flag", JBool(FALSE)>>,
            <<"term", JStr("")>> >>),
    JObj(<< <<"gap", JUndef>>, <<"none", JArr(<<>>)>>,
            <<"shift", JNum("-0")>>, <<"note", JNull>>,
            <<"ids", JArr(<<JStr("a")>>)>> >>) }

\* Strings that name no entry of the endpoints literal.
AbsentActions == {"no_such_action", ""} \cup ObjectPrototypeNames

\* Values of a parameter the schema accepts, as the server's JSON.parse
\* hands them over: the number literals 1e999 and -1e999 are read as
\* Infinity and -Infinity, and z.number() rejects only NaN.
Alternatives(p) ==
  CASE p.kind = "enum" -> {JStr(s) : s \in p.enum}
    [] p.kind = "number" -> {p.def, JNum("Infinity"), JNum("-Infinity")}
    [] p.kind = "array" -> {SampleValue(p), JArr(<<JStr(AppId)>>), JArr(<<>>)}
    [] p.kind = "string" ->
         LET v == IF p.def.t # "undef" THEN p.def ELSE SampleValue(p)
         IN {v, JStr(v.s \o "2")}

\* Pairs of tool calls that differ in the tool, or in the value of exactly
\* one argument (the platform among them).
DifferInputs ==
  { [Probe("differ", tu[1], JObj(FullArgs(tu[1])), JObj(FullArgs(tu[2])))
       EXCEPT !.other = tu[2]] :
      tu \in {x \in AnalyticsTools \X AnalyticsTools : x[1] # x[2]} }
  \cup
  UNION { UNION { { [Probe("differ", t,
                           JObj(SetProp(FullArgs(t), Schema(t)[i].name, vw[1])),
                           JObj(SetProp(FullArgs(t), Schema(t)[i].name, vw[2])))
                      EXCEPT !.other = t] :
                      vw \in {x \in Alternatives(Schema(t)[i])
                                     \X Alternatives(Schema(t)[i]) :
                                x[1] # x[2]} } :
                  i \in DOMAIN Schema(t) } :
          t \in AnalyticsTools }

ProbeInputs ==
  DifferInputs
  \cup
  { Probe("absent", action,
          JObj(<< <<"appId", JStr(AppId)>>, <<"platform", JStr("ios")>> >>),
          JObj(<< <<"appId", JStr(AppId)>>, <<"platform", JStr("android")>> >>)) :
      action \in AbsentActions }
  \cup
  { Probe("resolve", action,
          JObj(<< <<"appId", JStr(AppId)>>, <<"platform", JStr("ios")>> >>),
          JObj(<< <<"appId", JStr(AppId)>>, <<"platform", JStr("android")>> >>)) :
      action \in DOMAIN endpoints }
  \cup
  { Probe("query", "search_app", m, m) : m \in QueryMaps }
  \cup
  UNION { { Probe("reorder", tool, JObj(FullArgs(tool)), JObj(m)) :
              m \in Reorderings(FullArgs(tool)) } : tool \in AnalyticsTools }
  \cup
  UNION { { Probe("direct", ActionOf(tool),
                  HandlerParams(tool, JObj(FullArgs(tool))), JObj(m)) :
              m \in Reorderings(HandlerParams(tool, JObj(FullArgs(tool))).kids) } :
          tool \in AnalyticsTools }

KeyInit ==
  /\ Start0
  /\ probe \in ProbeInputs

\* Two calls of a registered tool, up to the key fetchAppTweakData derives.
ProbeTool ==
  /\ probe.stage = "in"
  /\ probe.how = "reorder"
  /\ ArgsValid(probe.action, probe.a)
  /\ ArgsValid(probe.action, probe.b)
  /\ probe' = [probe EXCEPT
                 !.stage = "out",
                 !.ka = CacheKey(ActionOf(probe.action),
                                 HandlerParams(probe.action, probe.a)),
                 !.kb = CacheKey(ActionOf(probe.action),
                                 HandlerParams(probe.action, probe.b))]
  /\ UNCHANGED <<env, redisClient, created, connects, cache, now, calls, prev, nextId>>

\* Two calls of fetchAppTweakData, up to the key it derives.
ProbeDirect ==
  /\ probe.stage = "in"
  /\ probe.how = "direct"
  /\ probe' = [probe EXCEPT !.stage = "out",
                            !.ka = CacheKey(probe.action, probe.a),
                            !.kb = CacheKey(probe.action, probe.b)]
  /\ UNCHANGED <<env, redisClient, created, connects, cache, now, calls, prev, nextId>>

\* A call of fetchAppTweakData without a Cache Store, up to the request.
Requested(action, params) ==
  Resolve([Idle EXCEPT !.action = action, !.params = params])

\* Two calls of one action, one per platform, up to the requests issued.
ProbeResolve ==
  /\ probe.stage = "in"
  /\ probe.how \in {"resolve", "absent"}
  /\ probe' = [probe EXCEPT
                 !.stage = "out",
                 !.ra = Requested(probe.action, probe.a).req,
                 !.sa = Requested(probe.action, probe.a).site,
                 !.rb = Requested(probe.action, probe.b).req,
                 !.sb = Requested(probe.action, probe.b).site]
  /\ UNCHANGED <<env, redisClient, created, connects, cache, now, calls, prev, nextId>>

\* One call, up to the request issued.
ProbeQuery ==
  /\ probe.stage = "in"
  /\ probe.how = "query"
  /\ probe' = [probe EXCEPT
                 !.stage = "out",
                 !.ra = Requested(probe.action, probe.a).req,
                 !.sa = Requested(probe.action, probe.a).site]
  /\ UNCHANGED <<env, redisClient, created, connects, cache, now, calls, prev, nextId>>

\* Two calls of registered tools, up to the keys derived and the
\* requests issued.
ProbeDiffer ==
  /\ probe.stage = "in"
  /\ probe.how = "differ"
  /\ ArgsValid(probe.action, probe.a)
  /\ ArgsValid(probe.other, probe.b)
  /\ LET pa == HandlerParams(probe.action, probe.a)
         pb == HandlerParams(probe.other, probe.b)
         ca == Requested(ActionOf(probe.action), pa)
         cb == Requested(ActionOf(probe.other), pb)
     IN probe' = [probe EXCEPT
                    !.stage = "out",
                    !.ka = CacheKey(ActionOf(probe.action), pa),
                    !.kb = CacheKey(ActionOf(probe.other), pb),
                    !.ra = ca.req, !.sa = ca.site,
                    !.rb = cb.req, !.sb = cb.site]
  /\ UNCHANGED <<env, redisClient, created, connects, cache, now, calls, prev, nextId>>

KeyNext == ProbeTool \/ ProbeDirect \/ ProbeResolve \/ ProbeQuery \/ ProbeDiffer

KeySpec == KeyInit /\ [][KeyNext]_vars

(***************************************************************************)
(* Properties.                                                             *)
(***************************************************************************)
\* c has returned and prev is the call that returned right before c began.
Follows(c) == c.pc = "ret" /\ prev.id # 0 /\ c.after = prev.id

\* c and prev are calls of fetchAppTweakData with the same action and
\* the same parameters.
Identical(c) ==
  /\ c.action # ""
  /\ c.action = prev.action
  /\ c.params = prev.params

\* d fetched successfully and its cache write was answered.
Stored(d) == d.fetches = 1 /\ d.writes = 1 /\ d.site = ""

\* c read the cache before the TTL of the entry prev wrote was over.
InTTL(c) == c.readAt < prev.wroteAt + CACHE_TTL

\* d issued its request and got no parsed 2xx answer.
FetchFailed(d) ==
  /\ d.fetches = 1
  /\ \/ d.site \in {"fetch", "json"}
     \/ d.resp # NoResponse /\ (d.resp.status < 200 \/ d.resp.status > 299)

IsErrorPayload(v) == v.t = "obj" /\ GetProp(v, "error") = JBool(TRUE)

\* message holds code and then text.
Mentions(message, code, text) ==
  \E pre \in {"", "AppTweak API error ("}, mid \in {"", "): "} :
    message = pre \o code \o mid \o text

\* C1: with a Cache Store, after a call that fetched and stored its result,
\* the identical next call within the TTL issues no upstream request; the
\* two calls make one upstream fetch and two cache reads, and the second
\* read, when the store answers it, is a hit.
C1_IdempotentWithinTTL ==
  \A p \in Procs :
    LET c == calls[p] IN
    (Follows(c) /\ Identical(c) /\ Stored(prev) /\ (c.site = "get" \/ InTTL(c)))
    => /\ c.fetches = 0
       /\ prev.fetches + c.fetches = 1
       /\ prev.reads + c.reads = 2
       /\ c.site # "get" => c.hit

C1_Witness ==
  \E p \in Procs :
    /\ Follows(calls[p]) /\ Identical(calls[p]) /\ Stored(prev)
    /\ InTTL(calls[p])
    /\ calls[p].hit
    /\ prev.reads + calls[p].reads = 2

\* C2: the payload a cache hit returns is the payload the call that
\* stored the entry returned.
C2_HitReturnsStoredPayload ==
  \A p \in Procs :
    LET c == calls[p] IN
    (Follows(c) /\ Identical(c) /\ Stored(prev) /\ c.hit)
    => c.result = prev.result

\* C3: a non-2xx answer makes the call return { error: true, message }
\* with the status code and the body text in the message.
C3_StatusBecomesErrorPayload ==
  \A p \in Procs :
    LET c == calls[p] IN
    (/\ c.pc = "ret"
     /\ c.resp # NoResponse
     /\ (c.resp.status < 200 \/ c.resp.status > 299))
    => /\ IsErrorPayload(c.result)
       /\ GetProp(c.result, "message").t = "str"
       /\ Mentions(GetProp(c.result, "message").s, ToString(c.resp.status),
                   c.resp.text)

C3_Witness ==
  \E p \in Procs :
    /\ calls[p].pc = "ret"
    /\ calls[p].resp.status = 500
    /\ calls[p].resp.text = "Internal Server Error"
    /\ IsErrorPayload(calls[p].result)

\* C4: a call whose upstream fetch failed writes nothing to the cache, and
\* the identical next call is no hit: once its cache read is answered it
\* issues the upstream request again.
C4_FailedFetchNotCached ==
  \A p \in Procs :
    LET c == calls[p] IN
    /\ (c.pc = "ret" /\ FetchFailed(c))
       => (c.writes = 0 /\ \A e \in cache : e.by # c.id)
    /\ (Follows(c) /\ Identical(c) /\ FetchFailed(prev))
       => (~c.hit /\ (c.site # "get" => c.fetches = 1))

C4_Witness ==
  \E p \in Procs :
    /\ Follows(calls[p]) /\ Identical(calls[p]) /\ FetchFailed(prev)
    /\ prev.redis
    /\ prev.resp.status = 500
    /\ calls[p].reads = 1
    /\ calls[p].fetches = 1

DiffersByDefaults(tool, a, b) ==
  /\ a # b
  /\ \A i \in DOMAIN Schema(tool) :
       LET s == Schema(tool)[i]
           x == GetProp(a, s.name)
           y == GetProp(b, s.name)
       IN \/ x = y
          \/ s.def.t # "undef" /\ x.t = "undef" /\ y = s.def
          \/ s.def.t # "undef" /\ y.t = "undef" /\ x = s.def

\* C6: for every tool, a call that leaves a defaulted parameter out and a
\* call that gives the default derive the same key, and the second of the
\* two hits the entry the first stored.
C6_DefaultsBeforeKey ==
  \A p \in Procs :
    LET c == calls[p] IN
    (/\ Follows(c)
     /\ c.action # "" /\ prev.action # ""
     /\ c.tool = prev.tool
     /\ DiffersByDefaults(c.tool, prev.args, c.args))
    => /\ c.key = prev.key
       /\ (Stored(prev) /\ c.site # "get" /\ InTTL(c))
            => (c.hit /\ c.fetches = 0)

C6_Witness ==
  \E p \in Procs :
    /\ Follows(calls[p])
    /\ calls[p].tool = "get_top_displayed_reviews"
    /\ prev.tool = calls[p].tool
    /\ DiffersByDefaults(prev.tool, prev.args, calls[p].args)
    /\ Stored(prev)
    /\ calls[p].hit

\* C7: a call whose action is not in the endpoint table returns the
\* unknown-action error and does no network and no cache I/O.
C7_UnknownActionNoIO ==
  \A p \in Procs :
    LET c == calls[p] IN
    (c.action # "" /\ c.action \notin DOMAIN endpoints)
    => /\ c.fetches = 0
       /\ c.reads = 0
       /\ c.writes = 0
       /\ c.pc = "ret" =>
            c.result = ErrorPayload(UnknownActionMessage(c.action))

\* C8: analyze_top_keywords with an empty appIds list is rejected as a
\* validation failure and no upstream request is issued.
C8_EmptyAppIdsRejected ==
  \A p \in Procs :
    LET c == calls[p] IN
    (c.tool = "analyze_top_keywords" /\ GetProp(c.args, "appIds") = JArr(<<>>))
    => (c.fetches = 0 /\ (c.pc = "ret" => c.site = "schema"))

\* C9: when the fetch succeeded and the cache write fails, the call
\* returns the fetched data.
C9_WriteFailureSwallowed ==
  \A p \in Procs :
    LET c == calls[p] IN
    (c.pc = "ret" /\ c.site = "set") => c.result = c.data

\* C10: when the cache read fails the call goes on as on a miss: it
\* fetches upstream and returns no error payload for the read failure.
C10_ReadFailureIsMiss ==
  \A p \in Procs :
    LET c == calls[p] IN
    (c.pc = "ret" /\ c.site = "get")
    => (c.fetches = 1 /\ c.result # ErrorPayload("Socket closed unexpectedly"))

\* C11: without REDIS_URL / KV_URL no client is created and no call fails
\* for the cache; every call does no cache read and no cache write, a call
\* of a known action with the credential set issues its upstream request,
\* and two identical successful calls make two upstream fetches.
C11_NoStorePassThrough ==
  ~env.redisUrl =>
    /\ redisClient = "null" /\ created = 0 /\ connects = 0 /\ cache = {}
    /\ \A p \in Procs :
         LET c == calls[p] IN
         /\ c.reads = 0 /\ c.writes = 0 /\ ~c.hit /\ ~c.redis
         /\ c.site \notin {"connect", "get", "set", "parse"}
         /\ (c.action \in DOMAIN endpoints /\ env.apiKey) => c.fetches = 1
         /\ (Follows(c) /\ Identical(c) /\ prev.site = "" /\ c.site = "")
              => prev.fetches + c.fetches = 2

C11_Witness ==
  /\ ~env.redisUrl
  /\ \E p \in Procs :
       /\ Follows(calls[p]) /\ Identical(calls[p])
       /\ prev.site = "" /\ calls[p].site = ""
       /\ prev.fetches = 1 /\ calls[p].fetches = 1
       /\ calls[p].result = prev.result

\* C12: no call runs and returns an error payload for the missing
\* credential.
C12_MissingKeyNeverPerCall ==
  \A p \in Procs :
    ~(/\ calls[p].pc = "ret"
      /\ calls[p].result = ErrorPayload(MissingKeyMessage))

PlatformOf(params) == GetProp(params, "platform").s

\* C13: for every name of the endpoint table the ios call and the android
\* call resolve to two distinct paths that differ in the leading platform
\* segment only, and that segment is the platform asked for.
C13_PlatformSubstitutionTotal ==
  (probe.stage = "out" /\ probe.how = "resolve")
  => /\ probe.sa \notin {"unknown", "replace"}
     /\ probe.sb \notin {"unknown", "replace"}
     /\ env.apiKey =>
          LET pa == probe.ra.path
              pb == probe.rb.path
          IN /\ probe.sa = "" /\ probe.sb = ""
             /\ pa # pb
             /\ Len(pa) = Len(pb) /\ Len(pa) >= 2
             /\ pa[1] = PlatformOf(probe.a) /\ pb[1] = PlatformOf(probe.b)
             /\ \A i \in 2..Len(pa) :
                  pa[i] = pb[i] /\ pa[i] \notin {"ios", "android"}

C13_Witness ==
  /\ probe.stage = "out" /\ probe.how = "resolve"
  /\ probe.action = "get_keyword_volume_history"
  /\ probe.ra.path = <<"ios", "keywords", "volume", "history.json">>
  /\ probe.rb.path = <<"android", "keywords", "volume", "history.json">>

\* The query entries named name, in the order sent.
EntriesNamed(q, name) == SelectSeq(q, LAMBDA e : e[1] = name)

\* C19: a list is sent as one name[] entry per element in the list's order,
\* a scalar that is not null once under its name, a null or undefined
\* value not at all; nothing else is sent.
C19_QuerySerialization ==
  (probe.stage = "out" /\ probe.how = "query" /\ probe.sa = "")
  => LET m == probe.a.kids
         q == probe.ra.query
     IN /\ \A i \in DOMAIN m :
             LET name == m[i][1]
                 v == m[i][2]
             IN CASE v.t \in {"undef", "null"} ->
                       /\ EntriesNamed(q, name) = <<>>
                       /\ EntriesNamed(q, name \o "[]") = <<>>
                  [] v.t = "arr" ->
                       /\ EntriesNamed(q, name) = <<>>
                       /\ EntriesNamed(q, name \o "[]")
                            = [k \in DOMAIN v.kids |->
                                 <<name \o "[]", v.kids[k].s>>]
                  [] OTHER ->
                       /\ EntriesNamed(q, name \o "[]") = <<>>
                       /\ Len(EntriesNamed(q, name)) = 1
                       /\ EntriesNamed(q, name)[1][2]
                            = (IF v.t = "num" /\ v.s = "-0" THEN "0" ELSE v.s)
        /\ \A j \in DOMAIN q :
             \E i \in DOMAIN m : q[j][1] \in {m[i][1], m[i][1] \o "[]"}

C19_Witness ==
  /\ probe.stage = "out" /\ probe.how = "query" /\ probe.sa = ""
  /\ GetProp(probe.a, "note") = JNull
  /\ \E i \in DOMAIN probe.a.kids : probe.a.kids[i] = <<"gap", JUndef>>
  /\ EntriesNamed(probe.ra.query, "ids[]")
       = << <<"ids[]", "b">>, <<"ids[]", "a">>, <<"ids[]", "b">> >>
  /\ EntriesNamed(probe.ra.query, "size") = << <<"size", "0">> >>

\* metadata.routingInfo of an envelope, undefined when it has none.
RoutingOf(envelope) == GetProp(GetProp(envelope, "metadata"), "routingInfo")

\* The json of the envelope's content block.
PayloadOf(envelope) == GetProp(GetProp(envelope, "content").kids[1], "json")

ReviewsArgs ==
  JObj(<< <<"appId", JStr("389801252")>>, <<"platform", JStr("ios")>>,
          <<"country", JStr("US")>> >>)

\* c is a tool call that has returned its envelope.
Answered(c) == c.pc = "done"

\* C14: get_reviews {appId, platform: ios, country: US} as the first call,
\* with a Cache Store and nothing failing, misses, issues one request to
\* ios/applications/reviews.json, stores the JSON text of the result and
\* returns it with routing reviews / recent-reviews and the highlight flag;
\* every analytics tool returns its own tab and section with the flag set.
C14_ReviewsScenario ==
  \A p \in Procs :
    LET c == calls[p] IN
    /\ (/\ Answered(c) /\ c.tool = "get_reviews" /\ c.args = ReviewsArgs
        /\ c.id = 1 /\ c.redis /\ c.site = "")
       => /\ ~c.hit /\ c.reads = 1
          /\ c.fetches = 1
          /\ c.req.path = <<"ios", "applications", "reviews.json">>
          /\ c.writes = 1
          /\ now < c.wroteAt + CACHE_TTL
               => \E e \in cache : /\ e.key = c.key /\ e.by = c.id
                                   /\ e.val = JSONstringify(c.data)
          /\ PayloadOf(c.envelope) = c.data
          /\ RoutingOf(c.envelope)
               = JObj(<< <<"tabId", JStr("reviews")>>,
                         <<"sectionId", JStr("recent-reviews")>>,
                         <<"highlightEffect", JBool(TRUE)>> >>)
    /\ (Answered(c) /\ c.tool \in AnalyticsTools)
       => /\ RoutingOf(c.envelope) = RoutingObject(RoutingInfo(c.tool))
          /\ GetProp(RoutingOf(c.envelope), "highlightEffect") = JBool(TRUE)
          /\ GetProp(RoutingOf(c.envelope), "tabId").s
               \in {"overview", "reviews", "keywords", "competitors"}
          /\ GetProp(RoutingOf(c.envelope), "sectionId").s # ""
          /\ \/ c.tool \in {"search_app", "get_app_details"}
             \/ \A t \in AnalyticsTools \ {c.tool} :
                  RoutingOf(c.envelope) # RoutingObject(RoutingInfo(t))

C14_Witness ==
  \E p \in Procs :
    /\ Answered(calls[p]) /\ calls[p].tool = "get_reviews"
    /\ calls[p].args = ReviewsArgs
    /\ calls[p].id = 1 /\ calls[p].redis /\ calls[p].site = ""
    /\ calls[p].writes = 1
    /\ \E e \in cache : e.by = 1
    /\ GetProp(RoutingOf(calls[p].envelope), "sectionId") = JStr("recent-reviews")

\* C15: a tool's envelope has metadata.routingInfo exactly when the tool
\* is one of the ten analytics tools, whatever the payload; echo returns
\* its text with no metadata.
C15_RoutingIffEntry ==
  \A p \in Procs :
    LET c == calls[p] IN
    Answered(c)
    => /\ RoutingOf(c.envelope) # JUndef <=> c.tool \in AnalyticsTools
       /\ c.tool \in AnalyticsTools <=> RoutingInfo(c.tool) # NoRouting
       /\ c.tool = "echo"
            => /\ GetProp(c.envelope, "metadata") = JUndef
               /\ GetProp(c.envelope, "content")
                    = JArr(<< JObj(<< <<"type", JStr("text")>>,
                                      <<"text", JStr("Tool echo: hi")>> >>) >>)

C15_Witness ==
  \E p \in Procs :
    /\ Answered(calls[p]) /\ calls[p].tool = "echo"
    /\ GetProp(calls[p].envelope, "metadata") = JUndef
    /\ GetProp(calls[p].envelope, "content").t = "arr"

\* C18: a tool's routingInfo is the same for two calls of the tool
\* following each other, whether the payloads are fetched, served from the
\* cache or error payloads, and is the tool's fixed object.
C18_RoutingStatic ==
  \A p \in Procs :
    LET c == calls[p] IN
    /\ (Answered(c) /\ c.tool \in AnalyticsTools)
       => RoutingOf(c.envelope) = RoutingObject(RoutingInfo(c.tool))
    /\ (/\ Answered(c) /\ c.tool \in AnalyticsTools
        /\ prev.id # 0 /\ c.after = prev.id /\ prev.tool = c.tool)
       => /\ RoutingOf(c.envelope) # JUndef
          /\ RoutingOf(c.envelope) = RoutingOf(prev.envelope)

C18_Witness ==
  \E p \in Procs :
    /\ Answered(calls[p]) /\ calls[p].tool \in AnalyticsTools
    /\ prev.id # 0 /\ calls[p].after = prev.id /\ prev.tool = calls[p].tool
    /\ prev.fetches = 1 /\ prev.site = "" /\ ~IsErrorPayload(prev.result)
    /\ IsErrorPayload(calls[p].result)
    /\ RoutingOf(calls[p].envelope) = RoutingOf(prev.envelope)
    /\ RoutingOf(prev.envelope) # JUndef

\* The statements of fetchAppTweakData and makeAppTweakRequest that throw.
ThrowSites ==
  {"connect", "get", "parse", "replace", "unknown", "apikey", "query",
   "fetch", "status", "json", "set"}

\* C16: a call of fetchAppTweakData that has ended has a value: the data
\* when nothing threw, and { error: true, message: <text> } when anything
\* did, whichever statement it was.
C16_AlwaysResolves ==
  \A p \in Procs :
    LET c == calls[p] IN
    (c.pc = "ret" /\ c.action # "")
    => /\ c.result # JUndef
       /\ c.site \in ThrowSites \cup {""}
       /\ c.site = "" => (c.hit \/ c.result = c.data)
       /\ c.site # ""
            => /\ IsErrorPayload(c.result)
               /\ GetProp(c.result, "message").t = "str"
               /\ Len(c.result.kids) = 2

C16_Witness ==
  \E p \in Procs :
    /\ Follows(calls[p])
    /\ prev.site = "unknown" /\ IsErrorPayload(prev.result)
    /\ calls[p].site = "set" /\ IsErrorPayload(calls[p].result)

\* response.json() of each answer the upstream may give.
ParsedBody == [r \in Responses |-> JSONparse(r.toks)]

\* d's request was answered with a 2xx status and a body that parsed,
\* and d.data is the parsed value.
FetchedFully(d) ==
  /\ d.fetches = 1
  /\ d.resp \in Responses
  /\ ResponseOk(d.resp.status)
  /\ ParsedBody[d.resp].ok
  /\ d.data = ParsedBody[d.resp].v

\* The JSON texts of the values the upstream's 2xx answers parse to.
FetchedTexts ==
  { JSONstringify(ParsedBody[r].v) :
      r \in {x \in Responses : ResponseOk(x.status) /\ ParsedBody[x].ok} }

\* The JSON texts of the error payloads of this layer for the failures the
\* environment produces.
ErrorTexts ==
  { JSONstringify(ErrorPayload(m)) :
      m \in {StatusMessage(r.status, r.text) : r \in Responses}
            \cup {UnknownActionMessage(dc.action) : dc \in DirectCalls}
            \cup {MissingKeyMessage, "fetch failed", "connect ECONNREFUSED",
                  "Socket closed unexpectedly",
                  "Unexpected token < in JSON at position 0"} }

C20_NoRetry ==
  \A p \in Procs :
    LET c == calls[p] IN
    /\ c.fetches <= 1
    /\ prev.fetches <= 1
    /\ (FetchFailed(c) /\ (c.site # "" \/ c.resp # NoResponse))
       => /\ c.pc \in {"ret", "done"}
          /\ IsErrorPayload(c.result)

C20_Witness ==
  \E p \in Procs :
    /\ calls[p].pc = "ret"
    /\ calls[p].site = "fetch"
    /\ calls[p].fetches = 1
    /\ IsErrorPayload(calls[p].result)

\* The write of call p is answered in this step.
Wrote(p) ==
  /\ calls[p].pc = "set"
  /\ calls'[p].pc = "ret"
  /\ calls'[p].site = ""

\* C21 as stated: every entry has the TTL of 3600 s and an entry leaves
\* the store, or changes, only when its TTL is over.
C21_EntriesNeverMutated ==
  /\ [](\A e \in cache : e.ex = 3600)
  /\ [][\A e \in cache : e \in cache' \/ ~(now' < e.at + e.ex)]_vars

\* C21 amended: every entry is written with the TTL of 3600 s at the time
\* of its SET; an entry leaves the store when its TTL is over, and
\* otherwise only when the SET of another call that missed the same key
\* replaces it with an entry of the full TTL; nothing else changes the
\* store.
C21_EntriesOnlyReplacedBySet ==
  /\ [](\A e \in cache : e.ex = 3600 /\ e.at <= now)
  /\ [][/\ \A e \in cache :
            \/ e \in cache'
            \/ ~(now' < e.at + e.ex)
            \/ \E p \in Racers, f \in cache' :
                 /\ Wrote(p) /\ ~calls[p].hit /\ calls[p].reads = 1
                 /\ f.key = e.key /\ f.key = calls[p].key
                 /\ f.by = calls[p].id /\ f.by # e.by
                 /\ f.at = now /\ f.ex = 3600
        /\ \A f \in cache' \ cache :
            \E p \in Racers :
              /\ Wrote(p) /\ f.by = calls[p].id /\ f.key = calls[p].key
              /\ f.at = now /\ f.ex = 3600]_vars

\* Two invocations in flight that both missed the same key.
BothMissed(p, q) ==
  /\ p # q
  /\ calls[p].key = calls[q].key
  /\ \A r \in {p, q} :
       /\ calls[r].pc \in {"fetch", "set", "ret", "done"}
       /\ calls[r].reads = 1 /\ ~calls[r].hit
       /\ calls[r].site \notin {"connect", "get", "apikey"}

Finished(c) == c.pc \in {"ret", "done"}

C21_Witness ==
  \E p, q \in Racers :
    /\ BothMissed(p, q)
    /\ Finished(calls[p]) /\ Finished(calls[q])
    /\ calls[p].writes = 1 /\ calls[p].site = ""
    /\ calls[q].writes = 1 /\ calls[q].site = ""
    /\ \E e \in cache : e.by = calls[q].id /\ e.ex = 3600
    /\ \A e \in cache : e.by # calls[p].id

\* C22: two invocations that both missed the same key both fetch, and
\* when nothing else fails both write; each returns the value of its own
\* fetch, every answered write leaves its own value as the one entry of
\* the key, so that the entry is that of the last write, and neither call
\* fails but by a failing fetch or a failing cache write.
C22_RaceOfMisses ==
  /\ [](\A p, q \in Racers :
          BothMissed(p, q)
          => /\ calls[p].fetches = 1 /\ calls[q].fetches = 1
             /\ calls[p].site \in {"", "fetch", "set"}
             /\ (Finished(calls[p]) /\ calls[p].site = "")
                  => /\ calls[p].writes = 1
                     /\ calls[p].result = JSONparse(calls[p].resp.toks).v
             /\ (/\ Finished(calls[p]) /\ calls[p].site = ""
                 /\ Finished(calls[q]) /\ calls[q].site = ""
                 /\ now < CACHE_TTL)
                  => \E e \in cache, r \in {p, q} :
                       /\ e.key = calls[p].key
                       /\ e.by = calls[r].id
                       /\ e.val = JSONstringify(calls[r].data)
                       /\ \A f \in cache : f.key = e.key => f = e)
  /\ [][\A p \in Racers :
          Wrote(p)
          => \E e \in cache' :
               /\ e.key = calls[p].key /\ e.by = calls[p].id
               /\ e.val = JSONstringify(calls[p].data)
               /\ \A f \in cache' : f.key = e.key => f = e]_vars

C22_Witness ==
  \E p, q \in Racers :
    /\ BothMissed(p, q)
    /\ Finished(calls[p]) /\ calls[p].site = "" /\ calls[p].resp = BodyPlain
    /\ Finished(calls[q]) /\ calls[q].site = "" /\ calls[q].resp = BodyFresh
    /\ calls[p].result # calls[q].result
    /\ \E e \in cache : e.by = calls[p].id /\ e.val = BodyPlain.toks

\* C23: the client is created and connect is called at most once, not
\* before the first call, and with a connection string by the first call.
C23_ConnectsOnce ==
  /\ created <= 1 /\ connects <= 1
  /\ created = connects
  /\ nextId = 0 => (created = 0 /\ redisClient = "null")
  /\ ~env.redisUrl => (created = 0 /\ redisClient = "null")
  /\ (env.redisUrl /\ nextId > 0) => (created = 1 /\ redisClient = "client")

C23_Witness ==
  /\ created = 1 /\ connects = 1
  /\ \E p, q \in Racers :
       /\ calls[p].pc = "connect"
       /\ calls[q].pc = "get" /\ calls[q].redis

\* C24: for an action that is not in the endpoint table, with platform ios
\* and with platform android, no request is issued and the call ends with
\* the unknown-action error.
C24_NoFallback ==
  (probe.stage = "out" /\ probe.how = "absent")
  => /\ probe.ra = NoRequest /\ probe.rb = NoRequest
     /\ probe.sa = "unknown" /\ probe.sb = "unknown"

\* C25: every analytics tool passes an action of the endpoint table, and
\* no call of a registered tool ends in the unknown-action error.
C25_ToolsResolve ==
  /\ \A t \in AnalyticsTools : ActionOf(t) \in DOMAIN endpoints
  /\ \A c \in {calls[p] : p \in Procs} \cup {prev} :
       c.tool \in RegisteredTools
       => /\ c.site # "unknown"
          /\ c.result # ErrorPayload(UnknownActionMessage(c.action))
          /\ (c.tool \in AnalyticsTools /\ c.site # "schema")
               => /\ c.action \in DOMAIN endpoints
                  /\ EndpointLookup(c.action).segs # <<>>

C25_Witness ==
  /\ prev.tool = "get_top_displayed_reviews"
  /\ prev.action = "get_top_displayed_reviews"
  /\ prev.fetches = 1
  /\ prev.req.path = <<"ios", "applications", "featured_reviews.json">>
  /\ prev.site = ""

\* C26: a call that hits the cache issues no write and no request, and no
\* step of it changes the store; an entry enters the store only by the
\* answered write of a call that missed, and is gone one TTL after that
\* write at the latest, whatever reads happen in between.
C26_HitLeavesStore ==
  /\ [](\A c \in {calls[p] : p \in Procs} \cup {prev} :
          c.hit => c.writes = 0 /\ c.fetches = 0 /\ c.site = "")
  /\ [](\A e \in cache : e.at <= now /\ now < e.at + CACHE_TTL)
  /\ [][\A p \in Procs :
          /\ (calls[p].pc = "get" /\ calls'[p].hit) => cache' = cache
          /\ calls[p].hit => cache' = cache]_vars
  /\ [][\A e \in cache' :
          \/ e \in cache
          \/ \E p \in Procs :
               Wrote(p) /\ ~calls[p].hit /\ e.by = calls[p].id /\ e.at = now]_vars

\* The entry is read by two calls in a row, the second one later than the
\* write, and is still the entry of the call that wrote it.
C26_Witness ==
  \E p \in Procs, e \in cache :
    /\ calls[p].pc = "ret" /\ calls[p].hit
    /\ prev.hit /\ prev.key = calls[p].key
    /\ e.key = calls[p].key
    /\ e.by < prev.id
    /\ e.at < calls[p].readAt

\* C27: two calls that differ in the tool, in the platform or in the value
\* of an argument derive different cache keys.
C27_KeysNeverShared ==
  (probe.stage = "out" /\ probe.how = "differ")
  => (probe.action # probe.other \/ probe.a # probe.b) /\ probe.ka # probe.kb

\* C28: with APPTWEAK_API_KEY unset, a call that finds an entry returns
\* the cached value; a call that misses ends with the missing-credential
\* error payload, raised after the cache read; no call issues a request
\* or writes to the cache.
C28_KeyCheckedOnMiss ==
  ~env.apiKey
  => /\ cache \subseteq {WarmEntry}
     /\ \A p \in Racers :
          LET c == calls[p] IN
          /\ c.fetches = 0 /\ c.writes = 0 /\ c.req = NoRequest
          /\ (WarmEntry \in cache /\ c.redis /\ Finished(c) /\ c.site # "get")
               => c.hit
          /\ c.hit => /\ c.site = ""
                      /\ c.result = JSONparse(WarmEntry.val).v
          /\ (Finished(c) /\ ~c.hit /\ c.site \notin {"connect", "get"})
               => /\ c.site = "apikey"
                  /\ c.result = ErrorPayload(MissingKeyMessage)
          /\ (c.site = "apikey" /\ env.redisUrl) => (c.reads = 1 /\ c.redis)

\* Without the credential one call was answered from the entry and the
\* other, reading after the entry's TTL, ended with the error.
C28_Witness ==
  /\ ~env.apiKey
  /\ \E p, q \in Racers :
       /\ calls[p].pc = "done" /\ calls[p].hit
       /\ calls[p].result = JSONparse(BodyPlain.toks).v
       /\ Finished(calls[q]) /\ calls[q].site = "apikey"
       /\ calls[q].reads = 1

\* c began right after prev returned, is identical to it, and its cache
\* read was answered.
ReadAfter(c) ==
  /\ prev.id # 0 /\ c.after = prev.id
  /\ Identical(c)
  /\ Stored(prev)
  /\ c.redis /\ c.pc \in {"fetch", "set", "ret", "done"} /\ c.site # "get"

\* C29: a call identical to the one that stored the entry, reading once
\* the entry's TTL is over, misses and issues exactly one request; when
\* its write is answered the store holds its own entry, written at that
\* time with the TTL of 3600 s; an identical call reading within that TTL
\* hits, and issues no request.
C29_ExpiryThenRefill ==
  \A p \in Procs :
    LET c == calls[p] IN
    /\ (ReadAfter(c) /\ ~InTTL(c))
         => /\ ~c.hit
            /\ c.fetches = 1
            /\ (Finished(c) /\ c.site = "")
                 => /\ c.writes = 1
                    /\ c.wroteAt >= c.readAt
                    /\ \E e \in cache :
                         /\ e.key = c.key /\ e.by = c.id
                         /\ e.at = c.wroteAt /\ e.ex = 3600
                         /\ \A f \in cache : f.key = e.key => f = e
    /\ (ReadAfter(c) /\ InTTL(c) /\ ~prev.hit /\ prev.readAt >= CACHE_TTL)
         => /\ c.hit
            /\ c.fetches = 0 /\ c.writes = 0
            /\ \E e \in cache : e.key = c.key /\ e.by = prev.id

\* The second call read after the TTL of the first call's entry and has
\* stored its own.
C29_Witness ==
  \E p \in Procs :
    /\ ReadAfter(calls[p]) /\ ~InTTL(calls[p])
    /\ calls[p].pc = "ret" /\ calls[p].site = ""
    /\ calls[p].writes = 1
    /\ calls[p].wroteAt >= CACHE_TTL
    /\ cache # {}

\* C30: a call whose connect was rejected ends with an error payload,
\* having issued no request and no cache command, and leaves the client
\* it created installed; once a client is installed no step creates
\* another or calls connect again, so the call after it goes on with
\* that client, straight to the cache read.
C30_FailedConnectSticks ==
  /\ [](\A c \in {calls[p] : p \in Procs} \cup {prev} :
          /\ c.site = "connect"
               => /\ IsErrorPayload(c.result)
                  /\ c.fetches = 0 /\ c.reads = 0 /\ c.writes = 0
                  /\ c.req = NoRequest
                  /\ redisClient = "client"
                  /\ created = 1 /\ connects = 1
          /\ (prev.site = "connect" /\ c.id > prev.id)
               => /\ c.pc # "connect" /\ c.site # "connect"
                  /\ (c.tool # "" /\ c.site # "schema" /\ c.tool # "echo")
                       => c.redis)
  /\ [][redisClient = "client"
          => UNCHANGED <<redisClient, created, connects>>]_vars

\* After a call whose connect was rejected, the next call reads the
\* cache through the client that call left behind.
C30_Witness ==
  /\ prev.site = "connect"
  /\ IsErrorPayload(prev.result)
  /\ created = 1 /\ connects = 1
  /\ \E p \in Procs :
       /\ calls[p].id > prev.id
       /\ calls[p].pc = "get" /\ calls[p].redis

====
